---- MODULE Spec2Model ----
(***************************************************************************)
(* Oracle feeder (gear-dapps/oracle).                                      *)
(*                                                                         *)
(*   producer/src/index.ts  local-random feeder: startup reconciliation    *)
(*                          of the requests queue, live UserMessageSent    *)
(*                          handler, updateOracleValue                     *)
(*   unnamed/part_000       external-beacon feeder: setInterval tick,      *)
(*                          fetchRandomValue, updateOracleValue            *)
(*                                                                         *)
(* JavaScript numbers that the code handles can exceed the 32-bit          *)
(* integers of the model checker (ids are 64-bit, values go up to 10^13),  *)
(* so an integer is held as three limbs <<lo, mid, hi>> in base 2^24 and   *)
(* a JavaScript Number as a record [nan, neg, l].                          *)
(***************************************************************************)
EXTENDS Integers, Sequences, FiniteSets

\* ------------------------------------------------------------------------
\* Bounds of the model
\* ------------------------------------------------------------------------

\* Items in the queue snapshot returned by the node: when the reconciliation
\* is checked on its own, and in the whole feeder.
MaxQueue == 3
FeederQueue == 1

\* UserMessageSent events delivered by the subscription: when the handler is
\* checked on its own, and in the whole feeder.
MaxEvents == 2
FeederEvents == 1

\* Non-error status updates delivered to one signAndSend callback: in the
\* whole feeder, and when the submissions are checked on their own.
MaxAcks == 1
SubmitAcks == 2

\* Requests created in the oracle program while the feeder starts.
MaxCreated == 3

\* Caller bytes carried by a full new-request payload in the model.
CallerLen == 2

\* Math.random() is sampled as k / RandDen.
RandDen == 4

\* Timer ticks of the beacon feeder, and rounds the beacon goes through.
MaxTicks == 2
MaxRound == 2

\* ------------------------------------------------------------------------
\* Integers wider than the checker's: three limbs, base 2^24
\* ------------------------------------------------------------------------

Base == 2^24

Zero == <<0, 0, 0>>

Small(n) == <<n % Base, n \div Base, 0>>

\* l * m + a for a small multiplier m and a small addend a.
MulAdd(l, m, a) ==
    LET t0 == l[1] * m + a
        t1 == l[2] * m + (t0 \div Base)
        t2 == l[3] * m + (t1 \div Base)
    IN  <<t0 % Base, t1 % Base, t2>>

\* <<quotient, remainder>> of l divided by a small divisor d.
DivMod(l, d) ==
    LET q2 == l[3] \div d
        t1 == (l[3] % d) * Base + l[2]
        q1 == t1 \div d
        t0 == (t1 % d) * Base + l[1]
    IN  << <<t0 \div d, q1, q2>>, t0 % d >>

Less(a, b) ==
    \/ a[3] < b[3]
    \/ a[3] = b[3] /\ a[2] < b[2]
    \/ a[3] = b[3] /\ a[2] = b[2] /\ a[1] < b[1]

RECURSIVE BitLen(_)
BitLen(n) == IF n = 0 THEN 0 ELSE 1 + BitLen(n \div 2)

\* The IEEE-754 double nearest to the integer l (ties to even): the value a
\* JavaScript Number takes when it is given an integer of more than 53 bits.
ToDouble(l) ==
    IF l[3] < 2^5 THEN l
    ELSE LET e    == BitLen(l[3]) - 5
             q    == l[1] \div (2^e)
             r    == l[1] % (2^e)
             half == 2^(e - 1)
             up   == IF r > half \/ (r = half /\ q % 2 = 1) THEN 1 ELSE 0
             t0   == (q + up) * (2^e)
             t1   == l[2] + (t0 \div Base)
         IN  <<t0 % Base, t1 % Base, l[3] + (t1 \div Base)>>

\* A JavaScript Number holding an integer, or NaN.
Num(l)  == [nan |-> FALSE, neg |-> FALSE, l |-> l]
NaN     == [nan |-> TRUE, neg |-> FALSE, l |-> Zero]

\* ------------------------------------------------------------------------
\* Strings are sequences of one-character strings
\* ------------------------------------------------------------------------

DecChars == <<"0", "1", "2", "3", "4", "5", "6", "7", "8", "9">>
HexLower == <<"a", "b", "c", "d", "e", "f">>
HexUpper == <<"A", "B", "C", "D", "E", "F">>

\* The value of character c as a digit of the radix, or -1.
DigitVal(c, radix) ==
    LET v == IF \E i \in 1..10 : DecChars[i] = c
                 THEN (CHOOSE i \in 1..10 : DecChars[i] = c) - 1
             ELSE IF \E i \in 1..6 : HexLower[i] = c
                 THEN (CHOOSE i \in 1..6 : HexLower[i] = c) + 9
             ELSE IF \E i \in 1..6 : HexUpper[i] = c
                 THEN (CHOOSE i \in 1..6 : HexUpper[i] = c) + 9
             ELSE -1
    IN  IF v < radix THEN v ELSE -1

\* StrWhiteSpaceChar, the characters parseInt skips before the number:
\* tab, line feed, vertical tab, form feed, carriage return, space,
\* no-break space, U+FEFF and the space separator U+1680. (The space
\* separators U+2000 to U+200A, U+202F, U+205F and U+3000 and the line
\* terminators U+2028 and U+2029 are skipped too; they cannot be written
\* in a string of this module.)
WhiteSpace ==
    { "\t", "\n", "", "\f", "\r", " ", " ", "﻿", " " }

\* The string without its leading white space.
RECURSIVE StripWs(_)
StripWs(s) == IF s # <<>> /\ Head(s) \in WhiteSpace THEN StripWs(Tail(s)) ELSE s

\* <<value, number of digits read>> of the longest prefix of s made of
\* digits of the radix.
RECURSIVE ParseDigits(_, _, _, _)
ParseDigits(s, radix, acc, n) ==
    IF s = <<>> \/ DigitVal(Head(s), radix) < 0 THEN <<acc, n>>
    ELSE ParseDigits(Tail(s), radix, MulAdd(acc, radix, DigitVal(Head(s), radix)), n + 1)

\* parseInt(string) with no radix argument: leading white space and a sign
\* are skipped, a 0x prefix selects radix 16, the longest prefix of digits
\* is read and the rest ignored; NaN when no digit was read. Never throws.
ParseInt(str) ==
    LET s0  == StripWs(str)
        neg == s0 # <<>> /\ Head(s0) = "-"
        s1  == IF s0 # <<>> /\ Head(s0) \in {"-", "+"} THEN Tail(s0) ELSE s0
        hex == Len(s1) >= 2 /\ s1[1] = "0" /\ s1[2] \in {"x", "X"}
        s2  == IF hex THEN Tail(Tail(s1)) ELSE s1
        res == ParseDigits(s2, IF hex THEN 16 ELSE 10, Zero, 0)
    IN  IF res[2] = 0 THEN NaN
        ELSE [nan |-> FALSE, neg |-> neg /\ res[1] # Zero, l |-> ToDouble(res[1])]

\* The decimal digits of the integer l, most significant first
\* (BigInt.prototype.toString, and toString of a byte).
RECURSIVE DecDigits(_)
DecDigits(l) ==
    IF l = Zero THEN <<>>
    ELSE Append(DecDigits(DivMod(l, 10)[1]), DecChars[DivMod(l, 10)[2] + 1])

ToString(l) == IF l = Zero THEN <<"0">> ELSE DecDigits(l)

\* ------------------------------------------------------------------------
\* Byte sequences
\* ------------------------------------------------------------------------

Min(a, b) == IF a < b THEN a ELSE b

\* Array.prototype.slice(from, to) on 0-based indices, clamped to the length.
Slice(s, from, to) ==
    LET a == Min(from, Len(s))
        b == Min(to, Len(s))
    IN  IF b <= a THEN <<>> ELSE SubSeq(s, a + 1, b)

\* map((value) => parseInt(value.toString())) over a slice of the payload.
MapParseInt(bytes) ==
    [i \in 1..Len(bytes) |-> ParseInt(ToString(Small(bytes[i]))).l[1]]

\* Buffer.readBigUInt64LE(0): the first eight bytes, least significant first.
\* Defined only for a buffer of at least eight bytes.
ReadBigUInt64LE(buf) ==
    << buf[1] + buf[2] * 2^8 + buf[3] * 2^16,
       buf[4] + buf[5] * 2^8 + buf[6] * 2^16,
       buf[7] + buf[8] * 2^8 >>

\* ------------------------------------------------------------------------
\* Program constants and inputs of the producer (producer/src/index.ts)
\* ------------------------------------------------------------------------

ORACLE_ADDRESS == "0x"

\* The argument of getRandomNumber at both call sites: 9999999999999.
RandomMax ==
    ParseDigits(<<"9", "9", "9", "9", "9", "9", "9", "9", "9", "9", "9", "9", "9">>,
                10, Zero, 0)[1]

\* Math.random() returns k / RandDen for a numerator k sampled here: the
\* smallest and the largest value of the range [0, 1).
RandomSamples == {0, RandDen - 1}

\* getRandomNumber(max) == Math.floor(Math.random() * max), with
\* Math.random() == k / RandDen.
getRandomNumber(max, k) == DivMod(MulAdd(max, k, 0), RandDen)[1]

\* Ids as programState.read(...).toHuman() renders them: a small id, an id
\* with the thousands separator toHuman puts in, a non-numeric string, and
\* 2^53 + 1 in plain decimal digits.
QueueIdStrings ==
    { <<"7">>, <<"1", ",", "2", "3", "4">>, <<"x">>,
      <<"9", "0", "0", "7", "1", "9", "9", "2", "5", "4", "7", "4", "0", "9", "9", "3">> }

QueueItems == { <<id, "caller">> : id \in QueueIdStrings }

\* The RequestsQueue arrays the node may answer with, up to MaxQueue items.
Snapshots == UNION { [1..n -> QueueItems] : n \in 0..MaxQueue }

\* The answers used where the submissions run too: fewer items, and ids
\* that parse to themselves or not.
FeederSnapshots ==
    UNION { [1..n -> { <<id, "caller">> : id \in { <<"7">>, <<"1", ",", "2", "3", "4">> } }]
            : n \in 0..FeederQueue }

\* The largest sample only.
FeederSamples == {RandDen - 1}

\* Event sources: the oracle program and some other program.
Sources == { ORACLE_ADDRESS, "0xother" }

\* The eight little-endian bytes of 42 and of 2^53 + 1.
IdBytes == { <<42, 0, 0, 0, 0, 0, 0, 0>>, <<1, 0, 0, 0, 0, 0, 32, 0>> }

CallerBytes == [i \in 1..CallerLen |-> 200 + i]

\* Discriminant, 16 bytes of id (a u128 holding a 64-bit id), caller bytes.
FullPayload(disc, idb) ==
    <<disc>> \o idb \o [i \in 1..8 |-> 0] \o CallerBytes

PayloadLens == {0, 1, 8, 9, 16, 17, 17 + CallerLen}

\* Event payloads: full payloads and their truncations.
Payloads ==
    { Slice(FullPayload(d, b), 0, n) : d \in {0, 1, 255}, b \in IdBytes, n \in PayloadLens }

\* The payloads used where the submissions run too: a new request with
\* id 42, and a payload that is not a new request.
FeederPayloads ==
    { FullPayload(d, <<42, 0, 0, 0, 0, 0, 0, 0>>) : d \in {0, 1} }

\* The answers of calculateGas.handle: the minimum gas limit for the message
\* and the gas burned in the estimation run, which is less.
GasEstimates ==
    { [min_limit |-> 3, burned |-> 2], [min_limit |-> 5, burned |-> 4] }

\* The one answer used in the whole feeder.
FeederGas == { [min_limit |-> 3, burned |-> 2] }

\* What an uncaught error does to the process depends on the runtime the
\* feeder is run with: it is reported and the process goes on, or the
\* process is terminated.
UncaughtOutcomes == {"running", "crashed"}

\* ------------------------------------------------------------------------
\* State
\* ------------------------------------------------------------------------

VARIABLES
    proc,       \* "running" or "crashed"; at startup "loading" (the
                \* module's constants), "connecting" (main awaits the
                \* node) or "failed"
    recon,      \* startup reconciliation: "pending", "done" or "failed";
                \* "none" while no state read was issued (always so in
                \* the beacon feeder, which has none)
    snapshot,   \* the RequestsQueue array the state read returned
    inv,        \* invocations of updateOracleValue, in the order started
    nEvents,    \* UserMessageSent events delivered so far
    lastEvent,  \* what the handler did with the last event delivered
    faults,     \* errors that escaped every try/catch of the program
    tick,       \* beacon feeder: the timer callbacks, in the order fired
    beaconRound,\* beacon feeder: the latest round of the external beacon
    chain       \* the node's side of the intake: the requests created
                \* since the process connected, and how many of them there
                \* were when the state read was served and when the
                \* subscription became active (-1: not yet)

feederVars == <<recon, snapshot, nEvents, lastEvent, chain>>
beaconVars == <<tick, beaconRound>>
vars == <<proc, inv, faults, feederVars, beaconVars>>

NoChain == [created |-> 0, snapAt |-> -1, subAt |-> -1]

NoEvent ==
    [no |-> 0, source |-> "", payload |-> <<>>, outcome |-> "none",
     idRead |-> FALSE, callerRead |-> FALSE, id |-> NaN, caller |-> <<>>]

Init ==
    /\ proc = "running"
    /\ recon = "pending"
    /\ snapshot = <<>>
    /\ inv = <<>>
    /\ nEvents = 0
    /\ lastEvent = NoEvent
    /\ faults = 0
    /\ tick = <<>>
    /\ beaconRound = 1
    /\ chain = NoChain

\* ------------------------------------------------------------------------
\* updateOracleValue
\* ------------------------------------------------------------------------

\* Nothing encoded, estimated and built yet.
NoPayload == [action |-> "none", id |-> NaN, value |-> Zero]
NoGas == [min_limit |-> 0, burned |-> 0]
NoTx == [destination |-> "", payload |-> NoPayload, gasLimit |-> 0, value |-> 0]

\* A call of updateOracleValue: an async function runs synchronously up to
\* its first await, the load of the metadata.
NewInvocation(src, ev, id, value) ==
    [src |-> src, ev |-> ev, id |-> id, value |-> value,
     pc |-> "meta", failedAt |-> "none", promise |-> "pending",
     metaLoads |-> 1, gasCalls |-> 0, msgSends |-> 0, broadcasts |-> 0,
     okLogs |-> 0, failLogs |-> 0, ackErrors |-> 0,
     priced |-> NoPayload, gas |-> NoGas, tx |-> NoTx]

\* CreateType.create("Action", {UpdateValue: {id, value}}, oracleMeta), or
\* {SetRandomValue: {round, value}} in the beacon feeder: the payload, as
\* the action it encodes.
Encode(id, value) == [action |-> "update", id |-> id, value |-> value]

\* Faulty variant of Catch: the error is logged and thrown again.
CatchRethrows(r, at) ==
    [r EXCEPT !.pc = "done", !.failedAt = at, !.failLogs = @ + 1,
              !.promise = "rejected"]

\* catch (error) { console.log(`[-] Failed to send tx`) }: the error is
\* logged and swallowed, and the async function returns.
Catch(r, at) ==
    [r EXCEPT !.pc = "done", !.failedAt = at, !.failLogs = @ + 1,
              !.promise = "resolved"]

\* The metadata is loaded: the payload is encoded and calculateGas.handle
\* is called and awaited.
AfterMeta(r) ==
    [r EXCEPT !.pc = "gas", !.gasCalls = @ + 1, !.priced = Encode(r.id, r.value)]

\* Faulty variant of Extrinsic: the gas limit is the gas burned.
ExtrinsicBurned(payload, gas) ==
    [destination |-> ORACLE_ADDRESS, payload |-> payload,
     gasLimit |-> gas.burned, value |-> 0]

\* gearApi.message.send({destination: ORACLE_ADDRESS, payload:
\* payload.toHex(), gasLimit: gas.min_limit, value: 0}, ...).
Extrinsic(payload, gas) ==
    [destination |-> ORACLE_ADDRESS, payload |-> payload,
     gasLimit |-> gas.min_limit, value |-> 0]

\* The gas is known: message.send builds the extrinsic.
Built(r, gas) ==
    [r EXCEPT !.gas = gas, !.msgSends = @ + 1, !.tx = Extrinsic(r.priced, gas)]

\* The extrinsic is built: signAndSend is called and awaited.
AfterGas(r, gas) ==
    [Built(r, gas) EXCEPT !.pc = "send", !.broadcasts = @ + 1]

\* Faulty variant of OnGasFailure: the failure is logged and the message sent anyway.
OnGasFailureSendsAnyway(r) ==
    [AfterGas(r, NoGas) EXCEPT !.failedAt = "gas", !.failLogs = @ + 1]

\* calculateGas.handle rejected: control goes to the catch block.
OnGasFailure(r) == Catch(r, "gas")

\* signAndSend rejected: control goes to the catch block.
OnSendFailure(r) == Catch(r, "sign")

\* signAndSend resolved: the try block ends and the async function returns.
AfterSend(r) == [r EXCEPT !.pc = "sent", !.promise = "resolved"]

\* The status callback, event.isError false: the success line is logged.
OnStatusOk(r) == [r EXCEPT !.okLogs = @ + 1]

\* The status callback, event.isError true: throw new Error("Can't send tx").
\* The callback runs from the api's subscription, after updateOracleValue
\* has returned: the catch block is not on the stack.
OnStatusError(r) == [r EXCEPT !.pc = "closed", !.ackErrors = @ + 1]

Step(i, r) ==
    /\ inv' = [inv EXCEPT ![i] = r]
    /\ UNCHANGED <<proc, faults, feederVars, beaconVars>>

MetaOk(i) ==
    /\ proc = "running"
    /\ inv[i].pc = "meta"
    /\ \/ Step(i, AfterMeta(inv[i]))
       \/ Step(i, Catch(inv[i], "encode"))

MetaFail(i) ==
    /\ proc = "running"
    /\ inv[i].pc = "meta"
    /\ Step(i, Catch(inv[i], "meta"))

\* calculateGas.handle resolves with one of the estimates: the extrinsic is
\* built and signAndSend called, or message.send throws.
GasReturns(i, estimates) ==
    /\ proc = "running"
    /\ inv[i].pc = "gas"
    /\ \E gas \in estimates :
          \/ Step(i, AfterGas(inv[i], gas))
          \/ Step(i, Catch([inv[i] EXCEPT !.gas = gas, !.msgSends = @ + 1], "send"))

GasOk(i) == GasReturns(i, FeederGas)

GasFail(i) ==
    /\ proc = "running"
    /\ inv[i].pc = "gas"
    /\ Step(i, OnGasFailure(inv[i]))

SendOk(i) ==
    /\ proc = "running"
    /\ inv[i].pc = "send"
    /\ Step(i, AfterSend(inv[i]))

SendFail(i) ==
    /\ proc = "running"
    /\ inv[i].pc = "send"
    /\ Step(i, OnSendFailure(inv[i]))

\* The status callback is called with a status that is not an error, which
\* happens once for each status the transaction goes through (at most acks
\* times here).
Acked(i, acks) ==
    /\ proc = "running"
    /\ inv[i].pc = "sent"
    /\ inv[i].okLogs < acks
    /\ Step(i, OnStatusOk(inv[i]))

AckOk(i) == Acked(i, MaxAcks)

AckError(i) ==
    /\ proc = "running"
    /\ inv[i].pc = "sent"
    /\ inv' = [inv EXCEPT ![i] = OnStatusError(inv[i])]
    /\ faults' = faults + 1
    /\ proc' \in UncaughtOutcomes
    /\ UNCHANGED <<feederVars, beaconVars>>

\* ------------------------------------------------------------------------
\* Startup reconciliation
\* ------------------------------------------------------------------------

\* getOracleRequestsQueue: map each [id, caller] of the human-readable
\* state to {id: parseInt(id), caller}.
getOracleRequestsQueue(state) ==
    [k \in 1..Len(state) |-> [id |-> ParseInt(state[k][1]), caller |-> state[k][2]]]

\* The then-callback of main: oracleQueueItems.map(item =>
\* updateOracleValue(gearApi, {id: item.id, value: getRandomNumber(...)})).
ReconInvocations(items, ks) ==
    [k \in 1..Len(items) |->
        NewInvocation("recon", 0, items[k].id, getRandomNumber(RandomMax, ks[k]))]

ReadQueue(states, samples) ==
    /\ proc = "running"
    /\ recon = "pending"
    /\ \E state \in states :
       \E ks \in [1..Len(state) -> samples] :
          /\ snapshot' = state
          /\ inv' = inv \o ReconInvocations(getOracleRequestsQueue(state), ks)
    /\ recon' = "done"
    /\ UNCHANGED <<proc, nEvents, lastEvent, faults, chain, beaconVars>>

\* programState.read rejects: the promise chain of main has no catch.
ReadQueueFail ==
    /\ proc = "running"
    /\ recon = "pending"
    /\ recon' = "failed"
    /\ faults' = faults + 1
    /\ proc' \in UncaughtOutcomes
    /\ UNCHANGED <<snapshot, inv, nEvents, lastEvent, chain, beaconVars>>

\* ------------------------------------------------------------------------
\* Live requests: the UserMessageSent handler
\* ------------------------------------------------------------------------

Handled(outcome, idRead, callerRead, id, caller) ==
    [outcome |-> outcome, idRead |-> idRead, callerRead |-> callerRead,
     id |-> id, caller |-> caller]

\* Faulty variant of IsNewRequest: the discriminant is parsed but not compared with
\* 0, so that every payload is taken for a new request.
IsNewRequestAny(payload) == ParseInt(ToString(Small(payload[1]))) # NaN

\* payloadType[0].toString() parsed: is the payload a new request?
IsNewRequest(payload) == ParseInt(ToString(Small(payload[1]))) = Num(Zero)

\* Faulty variant of IsFromOracle: events of every program are taken.
IsFromAnyone(source) == TRUE

\* if (source.toString() !== ORACLE_ADDRESS) return: is the event a message
\* sent by the oracle program?
IsFromOracle(source) == source = ORACLE_ADDRESS

\* The body of the handler. "fault" is an exception thrown out of it:
\* payloadType[0] of an empty payload is undefined, and readBigUInt64LE(0)
\* throws a RangeError on a buffer of less than eight bytes.
OnUserMessageSent(source, payload) ==
    IF ~IsFromOracle(source)
        THEN Handled("ignored", FALSE, FALSE, NaN, <<>>)
    ELSE IF Slice(payload, 0, 1) = <<>>
        THEN Handled("fault", FALSE, FALSE, NaN, <<>>)
    ELSE IF ~IsNewRequest(payload)
        THEN Handled("notRequest", FALSE, FALSE, NaN, <<>>)
    ELSE LET buffer == MapParseInt(Slice(payload, 1, 17))
         IN  IF Len(buffer) < 8
                 THEN Handled("fault", TRUE, FALSE, NaN, <<>>)
             ELSE Handled("request", TRUE, TRUE,
                          ParseInt(ToString(ReadBigUInt64LE(buffer))),
                          MapParseInt(Slice(payload, 17, Len(payload))))

\* Faulty variant of StartFromEvent: the newest request is put first.
StartFromEventFirst(invs, n, id, value) ==
    <<NewInvocation("event", n, id, value)>> \o invs

\* Faulty variant of StartFromEvent: a request whose id was submitted
\* already is skipped.
StartFromEventOnce(invs, n, id, value) ==
    IF \E i \in 1..Len(invs) : invs[i].id = id
        THEN invs
        ELSE Append(invs, NewInvocation("event", n, id, value))

\* The last statement of the handler: updateOracleValue(gearApi, {id,
\* value: getRandomNumber(...)}) is called, not awaited, for the request
\* of event number n.
StartFromEvent(invs, n, id, value) ==
    Append(invs, NewInvocation("event", n, id, value))

\* An event is delivered to the handler, which main has subscribed in the
\* statement after the one that issues the state read.
Deliver(limit, payloads, samples) ==
    /\ proc = "running"
    /\ recon # "none"
    /\ nEvents < limit
    /\ \E source \in Sources, payload \in payloads, k \in samples :
       LET h == OnUserMessageSent(source, payload)
       IN  /\ nEvents' = nEvents + 1
           /\ lastEvent' = [no |-> nEvents + 1, source |-> source, payload |-> payload,
                            outcome |-> h.outcome, idRead |-> h.idRead,
                            callerRead |-> h.callerRead, id |-> h.id, caller |-> h.caller]
           /\ inv' = IF h.outcome = "request"
                         THEN StartFromEvent(inv, nEvents + 1, h.id,
                                             getRandomNumber(RandomMax, k))
                         ELSE inv
           /\ faults' = IF h.outcome = "fault" THEN faults + 1 ELSE faults
           /\ proc' \in IF h.outcome = "fault" THEN UncaughtOutcomes ELSE {proc}
    /\ UNCHANGED <<recon, snapshot, chain, beaconVars>>

\* ------------------------------------------------------------------------
\* Specifications of the producer
\* ------------------------------------------------------------------------

ReadQueueOk == ReadQueue(FeederSnapshots, FeederSamples)

Event == Deliver(FeederEvents, FeederPayloads, FeederSamples)

\* The whole feeder: reconciliation, live events and the submissions they
\* start, running concurrently.
Next ==
    \/ ReadQueueOk
    \/ ReadQueueFail
    \/ Event
    \/ \E i \in 1..Len(inv) :
          \/ MetaOk(i)
          \/ MetaFail(i)
          \/ GasOk(i)
          \/ GasFail(i)
          \/ SendOk(i)
          \/ SendFail(i)
          \/ AckOk(i)
          \/ AckError(i)

Spec == Init /\ [][Next]_vars

\* The startup reconciliation on its own, over every snapshot.
ReconOk == ReadQueue(Snapshots, RandomSamples)

NextRecon == ReconOk \/ ReadQueueFail

SpecRecon == Init /\ [][NextRecon]_vars

\* The live request handler on its own, over every source and payload.
LiveEvent == Deliver(MaxEvents, Payloads, RandomSamples)

NextLive == LiveEvent

SpecLive == Init /\ [][NextLive]_vars

\* The submissions of one reconciliation on their own, over every gas
\* estimate and with the statuses a transaction goes through.
SubmitRead == ReadQueue(FeederSnapshots, RandomSamples)

SubmitGas(i) == GasReturns(i, GasEstimates)

SubmitAck(i) == Acked(i, SubmitAcks)

NextSubmit ==
    \/ SubmitRead
    \/ \E i \in 1..Len(inv) :
          \/ MetaOk(i)
          \/ MetaFail(i)
          \/ SubmitGas(i)
          \/ GasFail(i)
          \/ SendOk(i)
          \/ SendFail(i)
          \/ SubmitAck(i)
          \/ AckError(i)

SpecSubmit == Init /\ [][NextSubmit]_vars

\* The intake of requests on its own, with no submission going on: the
\* startup snapshot and the live events, which can carry the same id.
IntakeSnapshots ==
    UNION { [1..n -> { <<id, "caller">> : id \in { <<"7">>, <<"4", "2">> } }]
            : n \in 0..MaxQueue }

IntakeRead == ReadQueue(IntakeSnapshots, FeederSamples)

IntakeEvent == Deliver(MaxEvents, FeederPayloads, FeederSamples)

NextIntake == IntakeRead \/ ReadQueueFail \/ IntakeEvent

SpecIntake == Init /\ [][NextIntake]_vars

\* ------------------------------------------------------------------------
\* The external-beacon feeder (unnamed/part_000)
\* ------------------------------------------------------------------------

\* fetchRandomValue() (./utils): one HTTP fetch of the latest round of the
\* beacon, which returns the pair [round, random] or fails.
fetchRandomValue == {"resolved", "rejected"}

\* The external beacon produces its next round.
BeaconAdvance ==
    /\ proc = "running"
    /\ beaconRound < MaxRound
    /\ beaconRound' = beaconRound + 1
    /\ UNCHANGED <<proc, inv, faults, feederVars, tick>>

\* setInterval fires: the callback starts and awaits fetchRandomValue().
\* The timer is set by the main of the beacon feeder, which issues no state
\* read.
TimerTick ==
    /\ proc = "running"
    /\ recon = "none"
    /\ Len(tick) < MaxTicks
    /\ tick' = Append(tick, [st |-> "fetching", round |-> 0, log |-> "none"])
    /\ UNCHANGED <<proc, inv, faults, feederVars, beaconRound>>

\* fetchRandomValue() resolves with [round, random]: the tick is logged and
\* updateOracleValue(data, gearApi) is called and awaited.
FetchOk(k) ==
    /\ proc = "running"
    /\ tick[k].st = "fetching"
    /\ "resolved" \in fetchRandomValue
    /\ tick' = [tick EXCEPT ![k] = [st |-> "submitting", round |-> beaconRound,
                                    log |-> "New tick"]]
    /\ inv' = Append(inv, NewInvocation("tick", k, Num(Small(beaconRound)), Zero))
    /\ UNCHANGED <<proc, faults, feederVars, beaconRound>>

\* fetchRandomValue() rejects: the await throws inside the timer callback,
\* which has no try/catch, and the callback's promise is rejected with
\* nothing handling it.
FetchFail(k) ==
    /\ proc = "running"
    /\ tick[k].st = "fetching"
    /\ "rejected" \in fetchRandomValue
    /\ tick' = [tick EXCEPT ![k].st = "failed"]
    /\ faults' = faults + 1
    /\ proc' \in UncaughtOutcomes
    /\ UNCHANGED <<inv, feederVars, beaconRound>>

NextBeacon ==
    \/ BeaconAdvance
    \/ TimerTick
    \/ \E k \in 1..Len(tick) :
          \/ FetchOk(k)
          \/ FetchFail(k)
    \/ \E i \in 1..Len(inv) :
          \/ MetaOk(i)
          \/ MetaFail(i)
          \/ GasOk(i)
          \/ GasFail(i)
          \/ SendOk(i)
          \/ SendFail(i)
          \/ AckOk(i)
          \/ AckError(i)

\* main of the beacon feeder: connected, the timer set; there is no
\* reconciliation and no subscription.
InitBeacon ==
    /\ proc = "running"
    /\ recon = "none"
    /\ snapshot = <<>>
    /\ inv = <<>>
    /\ nEvents = 0
    /\ lastEvent = NoEvent
    /\ faults = 0
    /\ tick = <<>>
    /\ beaconRound = 1
    /\ chain = NoChain

SpecBeacon == InitBeacon /\ [][NextBeacon]_vars

\* ------------------------------------------------------------------------
\* The intake against the oracle program's requests
\* ------------------------------------------------------------------------

\* The oracle program gets a new request, with the next id. The node sends
\* the event of a request to the subscriptions active when it is created.
CreateRequest ==
    /\ proc = "running"
    /\ chain.created < MaxCreated
    /\ chain' = [chain EXCEPT !.created = @ + 1]
    /\ UNCHANGED <<proc, inv, faults, recon, snapshot, nEvents, lastEvent, beaconVars>>

\* The node serves programState.read: the answer holds the requests pending
\* at that moment.
ServeRead ==
    /\ proc = "running"
    /\ recon = "pending"
    /\ chain.snapAt = -1
    /\ chain' = [chain EXCEPT !.snapAt = chain.created]
    /\ UNCHANGED <<proc, inv, faults, recon, snapshot, nEvents, lastEvent, beaconVars>>

\* The node activates the subscription asked for by subscribeToGearEvent.
Activate ==
    /\ proc = "running"
    /\ chain.subAt = -1
    /\ chain' = [chain EXCEPT !.subAt = chain.created]
    /\ UNCHANGED <<proc, inv, faults, recon, snapshot, nEvents, lastEvent, beaconVars>>

\* The RequestsQueue of the first n requests, as toHuman renders it.
GapState(n) == [k \in 1..n |-> <<ToString(Small(k)), "caller">>]

\* The payload of the event of request k.
GapPayload(k) == FullPayload(0, <<k, 0, 0, 0, 0, 0, 0, 0>>)

\* The answer of the state read arrives, and the then-callback of main runs.
GapRead ==
    /\ chain.snapAt >= 0
    /\ ReadQueue({GapState(chain.snapAt)}, FeederSamples)

\* The next event of the subscription arrives: the events of the requests
\* created since the subscription is active, in the order of creation.
GapEvent ==
    /\ chain.subAt >= 0
    /\ chain.subAt + nEvents < chain.created
    /\ Deliver(MaxCreated, {GapPayload(chain.subAt + nEvents + 1)}, FeederSamples)
    /\ lastEvent'.source = ORACLE_ADDRESS

NextGap == CreateRequest \/ ServeRead \/ Activate \/ GapRead \/ GapEvent

SpecGap == Init /\ [][NextGap]_vars

\* ------------------------------------------------------------------------
\* Startup of both feeders
\* ------------------------------------------------------------------------

\* The process starts: nothing of the module has been evaluated.
InitStartup ==
    /\ proc = "loading"
    /\ recon = "none"
    /\ snapshot = <<>>
    /\ inv = <<>>
    /\ nEvents = 0
    /\ lastEvent = NoEvent
    /\ faults = 0
    /\ tick = <<>>
    /\ beaconRound = 1
    /\ chain = NoChain

\* Faulty variant of OnStartupFailure: the error is reported and main goes
\* on to read the state and subscribe.
OnStartupFailureGoesOn == [proc |-> "running", recon |-> "pending"]

\* An exception at module level ends the evaluation of the module, and a
\* rejected await in main ends main, neither being caught: no statement
\* after it is run.
OnStartupFailure == [proc |-> "failed", recon |-> recon]

StartupFails(phase) ==
    /\ proc = phase
    /\ proc' = OnStartupFailure.proc
    /\ recon' = OnStartupFailure.recon
    /\ faults' = faults + 1
    /\ UNCHANGED <<snapshot, inv, nEvents, lastEvent, chain, beaconVars>>

\* The constants of the module are evaluated: the metadata file is read
\* and the keyring is read and unlocked; then main() is called and awaits
\* GearApi.create.
LoadOk ==
    /\ proc = "loading"
    /\ proc' = "connecting"
    /\ UNCHANGED <<inv, faults, feederVars, beaconVars>>

\* readFileSync or GearKeyring.fromJson throws.
LoadFail == StartupFails("loading")

\* The producer is connected: the state read is issued and the handler
\* subscribed.
ConnectOk ==
    /\ proc = "connecting"
    /\ proc' = "running"
    /\ recon' = "pending"
    /\ UNCHANGED <<snapshot, inv, nEvents, lastEvent, faults, chain, beaconVars>>

\* The beacon feeder is connected: the timer is set.
ConnectOkBeacon ==
    /\ proc = "connecting"
    /\ proc' = "running"
    /\ UNCHANGED <<inv, faults, feederVars, beaconVars>>

\* GearApi.create, nodeName() or nodeVersion() rejects.
ConnectFail == StartupFails("connecting")

\* Startup, followed by the intake of the producer or the ticks of the
\* beacon feeder.
NextStartup ==
    \/ LoadOk
    \/ LoadFail
    \/ ConnectOk
    \/ ConnectOkBeacon
    \/ ConnectFail
    \/ IntakeRead
    \/ ReadQueueFail
    \/ IntakeEvent
    \/ BeaconAdvance
    \/ TimerTick
    \/ \E k \in 1..Len(tick) :
          \/ FetchOk(k)
          \/ FetchFail(k)

SpecStartup == InitStartup /\ [][NextStartup]_vars

\* ------------------------------------------------------------------------
\* Claims
\* ------------------------------------------------------------------------

\* The decimal digits of str, its thousands separators left out.
Ungrouped(str) == SelectSeq(str, LAMBDA c : c # ",")

\* str is a run of decimal digits.
IsDecimalInteger(str) ==
    /\ str # <<>>
    /\ \A i \in 1..Len(str) : DigitVal(str[i], 10) >= 0

\* str renders an integer the way toHuman does: decimal digits, possibly
\* grouped by thousands separators.
IsHumanInteger(str) ==
    /\ str # <<>>
    /\ DigitVal(str[1], 10) >= 0
    /\ IsDecimalInteger(Ungrouped(str))

\* The integer that str renders, exactly.
HumanInteger(str) == ParseDigits(Ungrouped(str), 10, Zero, 0)[1]

\* The invocations of updateOracleValue started by event number n.
StartedBy(n) == { i \in 1..Len(inv) : inv[i].src = "event" /\ inv[i].ev = n }

\* C1: reconciliation of a snapshot of N items starts exactly N invocations
\* of updateOracleValue, the k-th carrying the id of the k-th item and a
\* value v with 0 <= v < 9999999999999 (none for an empty snapshot).
C1_ReconciliationInvokesEachItem ==
    recon = "done" =>
        /\ Len(inv) = Len(snapshot)
        /\ \A k \in 1..Len(snapshot) :
              /\ inv[k].src = "recon"
              /\ Less(inv[k].value, RandomMax)
              /\ IsHumanInteger(snapshot[k][1])
                    => inv[k].id = Num(HumanInteger(snapshot[k][1]))

\* C6: when some id of the snapshot is not a valid decimal integer, the
\* whole reconciliation fails: no invocation of updateOracleValue is made
\* for any item of that snapshot.
C6_InvalidIdFailsReconciliation ==
    (\E k \in 1..Len(snapshot) : ~IsDecimalInteger(snapshot[k][1]))
        => \A i \in 1..Len(inv) : inv[i].src # "recon"

\* C3: an event of the oracle program whose payload has discriminant 0 and
\* fewer than 17 bytes is reported as malformed: the handler neither throws
\* nor starts an invocation of updateOracleValue.
C3_ShortRequestIsMalformed ==
    ( /\ lastEvent.source = ORACLE_ADDRESS
      /\ Len(lastEvent.payload) >= 1
      /\ Len(lastEvent.payload) < 17
      /\ lastEvent.payload[1] = 0 )
        => /\ lastEvent.outcome \notin {"request", "fault"}
           /\ StartedBy(lastEvent.no) = {}

\* C7: an event of the oracle program whose discriminant byte is not 0 is
\* not a request: the id and caller bytes are not read and no invocation of
\* updateOracleValue is started.
C7_OtherDiscriminantIsNotARequest ==
    ( /\ lastEvent.source = ORACLE_ADDRESS
      /\ Len(lastEvent.payload) >= 1
      /\ lastEvent.payload[1] # 0 )
        => /\ lastEvent.outcome = "notRequest"
           /\ ~lastEvent.idRead
           /\ ~lastEvent.callerRead
           /\ StartedBy(lastEvent.no) = {}

\* C7, witness: a full-length payload with discriminant 255 was handled.
C7_Witness ==
    /\ lastEvent.source = ORACLE_ADDRESS
    /\ Len(lastEvent.payload) = 17 + CallerLen
    /\ lastEvent.payload[1] = 255
    /\ lastEvent.outcome = "notRequest"
    /\ inv = <<>>

\* C8: for a new-request payload of at least 17 bytes the decoded id is the
\* 64-bit integer held little-endian in the id field and the decoded caller
\* is bytes 17 to the end, in order.
C8_DecodedIdAndCaller ==
    ( /\ lastEvent.outcome = "request"
      /\ Len(lastEvent.payload) >= 17 )
        => /\ lastEvent.id = Num(ReadBigUInt64LE(SubSeq(lastEvent.payload, 2, 9)))
           /\ lastEvent.caller = SubSeq(lastEvent.payload, 18, Len(lastEvent.payload))
           /\ \A i \in StartedBy(lastEvent.no) : inv[i].id = lastEvent.id

\* C2: when the status callback of a submission sees isError, the failure
\* line is logged for that submission and the process goes on.
C2_AckErrorIsLoggedAndContained ==
    \A i \in 1..Len(inv) :
        inv[i].ackErrors > 0 => inv[i].failLogs = 1 /\ proc = "running"

\* C4: a submission whose gas estimation fails logs one failure and never
\* calls message.send or signAndSend.
C4_GasFailureLogsAndNeverBroadcasts ==
    \A i \in 1..Len(inv) :
        inv[i].failedAt = "gas"
            => /\ inv[i].failLogs = 1
               /\ inv[i].okLogs = 0
               /\ inv[i].msgSends = 0
               /\ inv[i].broadcasts = 0
               /\ inv[i].pc = "done"

\* C4, witness: a submission ended by a failed gas estimation.
C4_Witness ==
    \E i \in 1..Len(inv) :
        inv[i].failedAt = "gas" /\ inv[i].gasCalls = 1 /\ inv[i].failLogs = 1

\* C5: a request that reached updateOracleValue gets one attempt, which
\* broadcasts at most once, and the attempt ends in a logged success or a
\* logged failure.
C5_OneAttemptWithLoggedOutcome ==
    \A i \in 1..Len(inv) :
        /\ inv[i].broadcasts <= 1
        /\ inv[i].pc \in {"done", "closed"}
              => inv[i].okLogs + inv[i].failLogs >= 1

\* C9: one invocation of updateOracleValue estimates gas at most once and
\* broadcasts at most once whatever fails, and the promise it returns is
\* never rejected.
C9_NoRetryNoPropagation ==
    \A i \in 1..Len(inv) :
        /\ inv[i].metaLoads <= 1
        /\ inv[i].gasCalls <= 1
        /\ inv[i].msgSends <= 1
        /\ inv[i].broadcasts <= 1
        /\ inv[i].promise # "rejected"
        /\ inv[i].failLogs + inv[i].ackErrors >= 1 => inv[i].promise = "resolved"

\* C9, witness: a submission whose broadcast was rejected has returned
\* normally, after one gas estimation and one broadcast.
C9_Witness ==
    \E i \in 1..Len(inv) :
        /\ inv[i].failedAt = "sign"
        /\ inv[i].gasCalls = 1
        /\ inv[i].broadcasts = 1
        /\ inv[i].promise = "resolved"

\* C10: a timer tick whose fetch of the random value fails is skipped with
\* a log line and no submission, and the process and its timer go on.
C10_FetchFailureSkipsTick ==
    \A k \in 1..Len(tick) :
        tick[k].st = "failed"
            => /\ tick[k].log # "none"
               /\ proc = "running"
               /\ \A i \in 1..Len(inv) : ~(inv[i].src = "tick" /\ inv[i].ev = k)

\* C11: a failure of the startup state read aborts the startup batch only:
\* no reconciliation submission is started and the process keeps running,
\* so that the events delivered afterwards are still handled.
C11_ReadFailureIsContained ==
    recon = "failed"
        => /\ \A i \in 1..Len(inv) : inv[i].src # "recon"
           /\ proc = "running"

\* C12: every invocation of updateOracleValue logs exactly one outcome
\* line: never a success and a failure, never several successes, and not
\* none once the invocation has ended.
C12_ExactlyOneOutcomeLine ==
    \A i \in 1..Len(inv) :
        /\ inv[i].okLogs + inv[i].failLogs <= 1
        /\ inv[i].pc \in {"done", "closed"} => inv[i].okLogs + inv[i].failLogs = 1

\* C16: a submission that failed at a network call, the acknowledgment
\* included, never keeps another submission from going on to its own
\* broadcast: the other submission, where it waits for its metadata or its
\* gas estimate, can still take its next step, which the process running
\* is all it needs for.
C16_SubmissionsAreIndependent ==
    \A i, j \in 1..Len(inv) :
        /\ i # j
        /\ inv[i].failedAt \in {"gas", "sign"} \/ inv[i].ackErrors > 0
        /\ faults = inv[i].ackErrors
        /\ inv[j].pc \in {"meta", "gas"}
        => proc = "running"

\* C14: an event whose source is not the oracle program is discarded
\* before any decoding, whatever its payload: neither the id nor the caller
\* is read, and no invocation of updateOracleValue is started for it.
C14_OtherSourceIsDiscarded ==
    lastEvent.no > 0 /\ lastEvent.source # ORACLE_ADDRESS
        => /\ lastEvent.outcome = "ignored"
           /\ ~lastEvent.idRead
           /\ ~lastEvent.callerRead
           /\ StartedBy(lastEvent.no) = {}

\* C14, witness: a well-formed new request sent by another program was
\* delivered.
C14_Witness ==
    /\ lastEvent.source = "0xother"
    /\ Len(lastEvent.payload) = 17 + CallerLen
    /\ lastEvent.payload[1] = 0

\* C15: the submissions started by the handler are in the order of delivery
\* of their events, one for each event taken for a new request, with the id
\* decoded from it, and none for any other event.
C15_EventsSubmittedInDeliveryOrder ==
    LET E == { i \in 1..Len(inv) : inv[i].src = "event" }
    IN  /\ \A i, j \in E : i < j => inv[i].ev < inv[j].ev
        /\ \A i \in E : inv[i].ev \in 1..nEvents
        /\ lastEvent.outcome = "request"
              => \E i \in E : /\ StartedBy(lastEvent.no) = {i}
                              /\ inv[i].id = lastEvent.id
                              /\ \A j \in E : j <= i
        /\ lastEvent.outcome # "request" => StartedBy(lastEvent.no) = {}

\* C15, witness: the same id was delivered twice and submitted twice, for
\* the first event and then for the second.
C15_Witness ==
    \E i, j \in 1..Len(inv) :
        /\ i < j
        /\ inv[i].src = "event" /\ inv[i].ev = 1
        /\ inv[j].src = "event" /\ inv[j].ev = 2
        /\ inv[i].id = inv[j].id

\* C19: nothing deduplicates the startup snapshot against the live events:
\* when the id of a new-request event is also in the snapshot, both the
\* reconciliation and the handler have started a submission for it.
C19_NoDeduplication ==
    /\ recon = "done"
    /\ lastEvent.outcome = "request"
    /\ \E k \in 1..Len(snapshot) : ParseInt(snapshot[k][1]) = lastEvent.id
    => \E i, j \in 1..Len(inv) :
          /\ inv[i].src = "recon" /\ inv[i].id = lastEvent.id
          /\ inv[j].src = "event" /\ inv[j].ev = lastEvent.no
          /\ inv[j].id = lastEvent.id

\* C19, witness: two submissions for the id 42, one started by the
\* reconciliation and one by a live event.
C19_Witness ==
    \E i, j \in 1..Len(inv) :
        /\ inv[i].src = "recon" /\ inv[i].id = Num(Small(42))
        /\ inv[j].src = "event" /\ inv[j].id = Num(Small(42))

\* C17: one invocation of updateOracleValue encodes, estimates the gas,
\* builds the extrinsic and broadcasts, in that order: nothing is built or
\* broadcast before the gas estimate has returned, and the extrinsic
\* broadcast has the oracle program as destination, the payload that was
\* priced, the minimum estimated gas as gas limit and the value 0.
C17_StepsInOrderAndExtrinsicFields ==
    \A i \in 1..Len(inv) :
        LET r == inv[i]
        IN  /\ r.gasCalls = 1 <=> r.priced # NoPayload
            /\ r.priced # NoPayload => r.priced = Encode(r.id, r.value)
            /\ r.msgSends = 1 <=> r.gas # NoGas
            /\ r.gas # NoGas => r.gasCalls = 1 /\ r.gas \in GasEstimates
            /\ r.broadcasts = 1 <=> r.tx # NoTx
            /\ r.tx # NoTx
                  => /\ r.msgSends = 1
                     /\ r.tx.destination = ORACLE_ADDRESS
                     /\ r.tx.payload = r.priced
                     /\ r.tx.gasLimit = r.gas.min_limit
                     /\ r.tx.value = 0

\* C17, witness: a submission was broadcast with the larger of the gas
\* estimates.
C17_Witness ==
    \E i \in 1..Len(inv) :
        /\ inv[i].pc = "sent"
        /\ inv[i].broadcasts = 1
        /\ inv[i].gas = [min_limit |-> 5, burned |-> 4]
        /\ inv[i].tx.gasLimit = 5

\* C18: the rounds broadcast by the beacon feeder never decrease: no step
\* broadcasts the round of a tick when a higher round was broadcast
\* already, also when the submissions of two ticks overlap.
C18_RoundsBroadcastInOrder ==
    [][\A j \in 1..Len(inv) :
          inv'[j].broadcasts > inv[j].broadcasts
              => \A i \in 1..Len(inv) :
                    inv[i].broadcasts >= 1
                        => tick[inv[i].ev].round <= tick[inv[j].ev].round]_vars

\* C13: when the metadata file, the keyring or the connection to the node
\* fails at startup, the process serves nothing: the failure ends the
\* startup, no step follows it, and no state read, event, timer tick or
\* invocation of updateOracleValue has happened.
C13_StartupFailureServesNothing ==
    [][/\ proc \in {"loading", "connecting"} /\ faults' > faults => proc' = "failed"
       /\ proc' = "failed"
             => /\ recon' = "none"
                /\ snapshot' = <<>>
                /\ inv' = <<>>
                /\ nEvents' = 0
                /\ tick' = <<>>
       /\ proc # "failed"]_vars

\* C13, witness: the startup has failed, at the module's constants or at
\* the connection to the node.
C13_Witness == proc = "failed" /\ faults = 1

\* C20: no request created after the process connected is lost between the
\* startup snapshot and the live subscription: once the snapshot was
\* reconciled and every event of the subscription was delivered, each
\* request created has a submission, whatever the interleaving.
C20_NoRequestLost ==
    /\ recon = "done"
    /\ chain.subAt >= 0
    /\ chain.subAt + nEvents = chain.created
    => \A k \in 1..chain.created :
          \E i \in 1..Len(inv) : inv[i].id = Num(Small(k))

====
